---------------------------- MODULE Spec2Model ----------------------------
(***************************************************************************)
(* Model of yuheng-adminextract: the graph builder, the root selector, the *)
(* graph pruner and the pipeline of main                                   *)
(* (src/src/yuheng_plugin/yuheng_admininspect/__init__.py, src/src/prune.py*)
(* and src/src/transform.py).                                              *)
(*                                                                         *)
(* A networkx DiGraph is the record [nodes, succ, data]: nodes is the node *)
(* sequence in insertion order, succ[n] the successors of n in insertion   *)
(* order and data[n] the attribute dict of n.  A Python dict is a function *)
(* whose DOMAIN is its key set; None and str are tagged records.           *)
(***************************************************************************)
EXTENDS Integers, Sequences, FiniteSets, TLC

VARIABLES
    relation_dict,    \* world.relation_dict: the relation with key i is relation_dict[i]
    args,             \* the configuration values of the run
    G,                \* the graph
    root_id,          \* the result of find_root_node_id, 0 before it returns
    root_candidates,  \* the node ids of find_root_node_id's candidates
    min_level,        \* find_root_node_id's minimum level
    pc,               \* the position of the run
    err,              \* the exception that ended the call or the run
    err_at,           \* the stage that raised err
    inputs_read,      \* the number of operator inputs read so far
    last_input,       \* the line the operator entered last
    output,           \* the content of the output file, None while there is none
    printed,          \* the texts printed so far
    G_in,             \* history: the graph handed to the latest pruning call
    calls,            \* history: the number of completed pruning calls
    returned,         \* the latest direct call of a serializer and its result
    frames            \* the frames of recurse on the call stack, innermost last

vars == <<relation_dict, args, G, root_id, root_candidates, min_level, pc, err,
          err_at, inputs_read, last_input, output, printed, G_in, calls,
          returned, frames>>

-----------------------------------------------------------------------------
(* Bounds *)

MaxRel == 3        \* relations of a map document, nodes of an input graph
MaxMembers == 2    \* members of all relations of a map document together
MaxInputs == 2     \* operator inputs read in one run
MaxCalls == 2      \* successive calls of one pruning operation

-----------------------------------------------------------------------------
(* Python values *)

None == [kind |-> "None"]
Str(s) == [kind |-> "str", chars |-> s]
PyInt(n) == [kind |-> "int", val |-> n]
Inf == [kind |-> "float", val |-> "inf"]    \* float("inf")

Range(s) == {s[i] : i \in DOMAIN s}

\* dict.get(key): the value, None when the key is missing
Get(d, key) == IF key \in DOMAIN d THEN d[key] ELSE None

Digits == <<"0", "1", "2", "3", "4", "5", "6", "7", "8", "9">>
IsDigit(c) == \E i \in 1..10 : Digits[i] = c
DigitVal(c) == (CHOOSE i \in 1..10 : Digits[i] = c) - 1

RECURSIVE Strip(_)
\* str.strip() on a character sequence
Strip(s) ==
    IF s = <<>> THEN s
    ELSE IF Head(s) = " " THEN Strip(Tail(s))
    ELSE IF s[Len(s)] = " " THEN Strip(SubSeq(s, 1, Len(s) - 1))
    ELSE s

RECURSIVE DecimalValue(_)
DecimalValue(s) ==
    IF s = <<>> THEN 0
    ELSE 10 * DecimalValue(SubSeq(s, 1, Len(s) - 1)) + DigitVal(s[Len(s)])

\* int(x) on None, an int or a str: surrounding blanks are stripped, one sign is
\* allowed, the rest must be decimal digits
int(x) ==
    IF x.kind = "int" THEN [ok |-> TRUE, val |-> x.val]
    ELSE IF x.kind # "str" THEN [ok |-> FALSE, exc |-> "TypeError"]
    ELSE LET t == Strip(x.chars)
             signed == t # <<>> /\ Head(t) \in {"-", "+"}
             body == IF signed THEN Tail(t) ELSE t
         IN IF body # <<>> /\ \A i \in DOMAIN body : IsDigit(body[i])
            THEN [ok |-> TRUE,
                  val |-> IF signed /\ Head(t) = "-" THEN 0 - DecimalValue(body)
                          ELSE DecimalValue(body)]
            ELSE [ok |-> FALSE, exc |-> "ValueError"]

\* the keys of the message catalogue of localization.py
CatalogueKeys ==
    {"prompt.find_root_node_id.root_node_id",
     "error.find_root_node_id.no_root_node_found",
     "prompt.find_root_node_id.manual_root_node_id",
     "error.find_root_node_id.error_invalid_node_id",
     "error.find_root_node_id.error_invalid_number",
     "prompt.find_root_node_id.multiple_root_nodes",
     "error.main.conflict_stop_level_and_only_level",
     "message.main.json_output_written",
     "error.visualize_graph.invalid_method",
     "error.main.general_error"}

\* i18n_string(strid): the text of the key (written as the key itself),
\* the empty text for a key the catalogue does not hold
i18n_string(strid) == IF strid \in CatalogueKeys THEN strid ELSE ""

\* print(text), input(text)
StdOut(texts) == printed' = printed \cup texts

-----------------------------------------------------------------------------
(* networkx.DiGraph *)

EmptyGraph == [nodes |-> <<>>, succ |-> <<>>, data |-> <<>>]

NodeSet(g) == Range(g.nodes)
EdgeSet(g) == {<<u, v>> \in NodeSet(g) \X NodeSet(g) : v \in Range(g.succ[u])}

\* G.add_node(n, **attrs): a new node is appended; attrs update the dict
add_node(g, n, attrs) ==
    IF n \in NodeSet(g)
    THEN [g EXCEPT !.data = [m \in NodeSet(g) |->
                                IF m = n THEN attrs @@ g.data[m] ELSE g.data[m]]]
    ELSE [nodes |-> Append(g.nodes, n),
          succ |-> [m \in NodeSet(g) \cup {n} |->
                       IF m = n THEN <<>> ELSE g.succ[m]],
          data |-> [m \in NodeSet(g) \cup {n} |->
                       IF m = n THEN attrs ELSE g.data[m]]]

\* G.add_edge(u, v): u then v are added as attribute-less nodes when they
\* are not in the graph yet, then v becomes a successor of u
add_edge(g, u, v) ==
    LET g1 == IF u \in NodeSet(g) THEN g ELSE add_node(g, u, <<>>)
        g2 == IF v \in NodeSet(g1) THEN g1 ELSE add_node(g1, v, <<>>)
    IN IF v \in Range(g2.succ[u]) THEN g2
       ELSE [g2 EXCEPT !.succ = [m \in NodeSet(g2) |->
                                    IF m = u THEN Append(g2.succ[m], v)
                                    ELSE g2.succ[m]]]

RECURSIVE Without(_, _)
\* the sequence s without the occurrences of x
Without(s, x) ==
    IF s = <<>> THEN s
    ELSE IF Head(s) = x THEN Without(Tail(s), x)
    ELSE <<Head(s)>> \o Without(Tail(s), x)

\* G.remove_node(n): n goes with its attributes and its incident edges
remove_node(g, n) ==
    [nodes |-> Without(g.nodes, n),
     succ |-> [m \in NodeSet(g) \ {n} |-> Without(g.succ[m], n)],
     data |-> [m \in NodeSet(g) \ {n} |-> g.data[m]]]

RECURSIVE ReachFrom(_, _)
\* the nodes reached from the set S along edges of g, S included
ReachFrom(g, S) ==
    LET T == S \cup UNION {Range(g.succ[n]) : n \in S}
    IN IF T = S THEN S ELSE ReachFrom(g, T)

\* nx.descendants(G, source): NetworkXError when source is not a node,
\* else the nodes reachable from source along edges, source excluded
descendants(g, source) ==
    IF source \notin NodeSet(g) THEN [ok |-> FALSE, exc |-> "NetworkXError"]
    ELSE [ok |-> TRUE, val |-> ReachFrom(g, {source}) \ {source}]

-----------------------------------------------------------------------------
(* build_graph *)

\* for member in relation.members: ... G.add_edge(id, member.ref)
build_members(g, id, members, rd) ==
    LET F[i \in 0..Len(members)] ==
            IF i = 0 THEN g
            ELSE IF members[i].role = "subarea" /\ members[i].ref \in DOMAIN rd
                 THEN add_edge(F[i - 1], id, members[i].ref)
                 ELSE F[i - 1]
    IN F[Len(members)]

\* for id, relation in world.relation_dict.items(): ...
build_graph(rd) ==
    LET F[i \in 0..Len(rd)] ==
            IF i = 0 THEN EmptyGraph
            ELSE LET tags == rd[i].tags
                     admin_level == Get(tags, "admin_level")
                     name == Get(tags, "name")
                     ref == Get(tags, "ref")
                 IN IF "boundary" \in DOMAIN tags
                       /\ tags["boundary"] = Str("administrative")
                    THEN build_members(
                             add_node(F[i - 1], i,
                                      [admin_level |-> admin_level,
                                       name |-> name, ref |-> ref]),
                             i, rd[i].members, rd)
                    ELSE F[i - 1]
    IN F[Len(rd)]

-----------------------------------------------------------------------------
(* find_root_node_id *)

\* scan_root_candidates keeping the greatest level instead of the least
scan_root_candidates_greatest(g) ==
    LET F[i \in 0..Len(g.nodes)] ==
            IF i = 0
            THEN [min_level |-> Inf, root_candidates |-> <<>>, exc |-> ""]
            ELSE LET prev == F[i - 1]
                     node == g.nodes[i]
                     admin_level == Get(g.data[node], "admin_level")
                     level == int(admin_level)
                 IN IF prev.exc # "" THEN prev
                    ELSE IF admin_level = None THEN prev
                    ELSE IF ~level.ok
                         THEN IF level.exc = "ValueError" THEN prev
                              ELSE [prev EXCEPT !.exc = level.exc]
                    ELSE IF prev.min_level = Inf \/ level.val > prev.min_level.val
                         THEN [prev EXCEPT !.min_level = PyInt(level.val),
                                           !.root_candidates = <<node>>]
                    ELSE IF level.val = prev.min_level.val
                         THEN [prev EXCEPT !.root_candidates = Append(@, node)]
                    ELSE prev
    IN F[Len(g.nodes)]

\* scan_root_candidates without the try/except around int(admin_level)
scan_root_candidates_uncaught(g) ==
    LET F[i \in 0..Len(g.nodes)] ==
            IF i = 0
            THEN [min_level |-> Inf, root_candidates |-> <<>>, exc |-> ""]
            ELSE LET prev == F[i - 1]
                     node == g.nodes[i]
                     admin_level == Get(g.data[node], "admin_level")
                     level == int(admin_level)
                 IN IF prev.exc # "" THEN prev
                    ELSE IF admin_level = None THEN prev
                    ELSE IF ~level.ok THEN [prev EXCEPT !.exc = level.exc]
                    ELSE IF prev.min_level = Inf \/ level.val < prev.min_level.val
                         THEN [prev EXCEPT !.min_level = PyInt(level.val),
                                           !.root_candidates = <<node>>]
                    ELSE IF level.val = prev.min_level.val
                         THEN [prev EXCEPT !.root_candidates = Append(@, node)]
                    ELSE prev
    IN F[Len(g.nodes)]

\* min_level = float("inf"); root_candidates = []; for node, data in
\* G.nodes(data=True): ... (the scan; a ValueError of int() is caught)
scan_root_candidates(g) ==
    LET F[i \in 0..Len(g.nodes)] ==
            IF i = 0
            THEN [min_level |-> Inf, root_candidates |-> <<>>, exc |-> ""]
            ELSE LET prev == F[i - 1]
                     node == g.nodes[i]
                     admin_level == Get(g.data[node], "admin_level")
                     level == int(admin_level)
                 IN IF prev.exc # "" THEN prev
                    ELSE IF admin_level = None THEN prev
                    ELSE IF ~level.ok
                         THEN IF level.exc = "ValueError" THEN prev
                              ELSE [prev EXCEPT !.exc = level.exc]
                    ELSE IF prev.min_level = Inf \/ level.val < prev.min_level.val
                         THEN [prev EXCEPT !.min_level = PyInt(level.val),
                                           !.root_candidates = <<node>>]
                    ELSE IF level.val = prev.min_level.val
                         THEN [prev EXCEPT !.root_candidates = Append(@, node)]
                    ELSE prev
    IN F[Len(g.nodes)]

\* an exception leaves the run: nothing catches it
Raise(exc, site) ==
    /\ pc' = "crashed"
    /\ err' = exc
    /\ err_at' = site

\* find_root_node_id returns r to main
ReturnRoot(r) ==
    /\ root_id' = r
    /\ pc' = "after_root"
    /\ UNCHANGED <<err, err_at>>

\* after_scan picking the first of several tied candidates itself
after_scan_first_of_tie(strategy, candidates) ==
    IF candidates = <<>> /\ strategy = "highest" THEN "raise_no_root_node_found"
    ELSE IF candidates = <<>> /\ strategy = "auto" THEN "prompt_manual_root_node_id"
    ELSE IF candidates = <<>> THEN "raise_index_error"
    ELSE "return_first"

\* after_scan failing under every strategy when there is no candidate
after_scan_always_raise(strategy, candidates) ==
    IF candidates = <<>> THEN "raise_no_root_node_found"
    ELSE IF Len(candidates) > 1 THEN "prompt_multiple_root_nodes"
    ELSE "return_first"

\* what find_root_node_id does after the scan (lines 102-140)
after_scan(strategy, candidates) ==
    IF candidates = <<>> /\ strategy = "highest" THEN "raise_no_root_node_found"
    ELSE IF candidates = <<>> /\ strategy = "auto" THEN "prompt_manual_root_node_id"
    ELSE IF Len(candidates) > 1 THEN "prompt_multiple_root_nodes"
    ELSE IF candidates = <<>> THEN "raise_index_error"
    ELSE "return_first"

\* root_id = find_root_node_id(G, args.root_select_strategy), up to its
\* return, its raise or its first input()
FindRootStart ==
    /\ pc = "find_root"
    /\ IF args.root_select_strategy = "input"
       THEN /\ pc' = "prompt_root_node_id"
            /\ UNCHANGED <<root_id, root_candidates, min_level, err, err_at,
                           printed>>
       ELSE LET s == scan_root_candidates(G)
                next == after_scan(args.root_select_strategy, s.root_candidates)
            IN /\ root_candidates' = s.root_candidates
               /\ min_level' = s.min_level
               /\ IF s.exc # ""
                  THEN Raise(s.exc, "int(admin_level)") /\ UNCHANGED root_id
                  ELSE IF next = "raise_no_root_node_found"
                  THEN Raise("ValueError", "no_root_node_found")
                       /\ UNCHANGED root_id
                  ELSE IF next = "raise_index_error"
                  THEN Raise("IndexError", "root_candidates[0]")
                       /\ UNCHANGED root_id
                  ELSE IF next = "return_first"
                  THEN ReturnRoot(s.root_candidates[1])
                  ELSE /\ pc' = next
                       /\ UNCHANGED <<root_id, err, err_at>>
               /\ IF s.exc = "" /\ next = "prompt_multiple_root_nodes"
                  THEN StdOut({i18n_string("prompt.find_root_node_id.multiple_root_nodes"),
                              "(idx). ID: [node], admin_level, name, ref"})
                  ELSE UNCHANGED printed
    /\ UNCHANGED <<relation_dict, args, G, inputs_read, last_input, G_in, calls,
                   output,
                   returned,
                   frames>>

\* the lines the operator may enter: the id of each node, the least id
\* that is no node, a line that is no number, a number after a blank
OperatorLines(g) ==
    LET missing == CHOOSE i \in 1..(Len(g.nodes) + 1) :
                       /\ i \notin NodeSet(g)
                       /\ \A j \in 1..(i - 1) : j \in NodeSet(g)
    IN {<<Digits[i + 1]>> : i \in NodeSet(g) \cup {missing}}
           \cup {<<"x">>, <<" ", "1">>}

\* input() returns the line the operator entered
ReadLine(line) ==
    /\ inputs_read < MaxInputs
    /\ inputs_read' = inputs_read + 1
    /\ last_input' = line

\* return int(input(...)) of strategy "input" and of the fallback of "auto"
ReadRootNodeId ==
    /\ pc \in {"prompt_root_node_id", "prompt_manual_root_node_id"}
    /\ \E line \in OperatorLines(G) :
          /\ ReadLine(line)
          /\ LET v == int(Str(line))
             IN IF v.ok THEN ReturnRoot(v.val)
                ELSE Raise(v.exc, "int(input())") /\ UNCHANGED root_id
    /\ StdOut({i18n_string(IF pc = "prompt_root_node_id"
                          THEN "prompt.find_root_node_id.root_node_id"
                          ELSE "prompt.find_root_node_id.manual_root_node_id")})
    /\ UNCHANGED <<relation_dict, args, G, root_candidates, min_level, G_in,
                   calls, output,
                   returned,
                   frames>>

\* ReadRootChoice without the except ValueError: a line that is no number
\* ends the call
ReadRootChoice_uncaught ==
    /\ pc = "prompt_multiple_root_nodes"
    /\ \E line \in OperatorLines(G) :
          /\ ReadLine(line)
          /\ LET v == int(Str(line))
                 node_ids == Range(root_candidates)
                 prompt == i18n_string("prompt.find_root_node_id.root_node_id")
             IN IF v.ok /\ v.val \in node_ids
                THEN ReturnRoot(v.val) /\ StdOut({prompt})
                ELSE IF v.ok
                THEN /\ StdOut({prompt,
                               i18n_string(
                                   "error.find_root_node_id.error_invalid_node_id")})
                     /\ UNCHANGED <<root_id, pc, err, err_at>>
                ELSE /\ Raise(v.exc, "int(input())")
                     /\ StdOut({prompt})
                     /\ UNCHANGED root_id
    /\ UNCHANGED <<relation_dict, args, G, root_candidates, min_level, G_in,
                   calls, output, returned, frames>>

\* one turn of the while True loop over the tied candidates
ReadRootChoice ==
    /\ pc = "prompt_multiple_root_nodes"
    /\ \E line \in OperatorLines(G) :
          /\ ReadLine(line)
          /\ LET v == int(Str(line))
                 node_ids == Range(root_candidates)
                 prompt == i18n_string("prompt.find_root_node_id.root_node_id")
             IN IF v.ok /\ v.val \in node_ids
                THEN ReturnRoot(v.val) /\ StdOut({prompt})
                ELSE /\ StdOut({prompt,
                               i18n_string(
                                   IF v.ok
                                   THEN "error.find_root_node_id.error_invalid_node_id"
                                   ELSE "error.find_root_node_id.error_invalid_number")})
                     /\ UNCHANGED <<root_id, pc, err, err_at>>
    /\ UNCHANGED <<relation_dict, args, G, root_candidates, min_level, G_in,
                   calls, output,
                   returned,
                   frames>>

-----------------------------------------------------------------------------
(* prune_graph_to_root *)

\* prune_graph_to_root keeping the descendants of the root without the root
prune_graph_to_root_descendants_only(g, root) ==
    LET d == descendants(g, root)
    IN IF ~d.ok THEN [ok |-> FALSE, exc |-> d.exc, G |-> g]
       ELSE LET reachable == d.val
                nodes == g.nodes
                F[i \in 0..Len(nodes)] ==
                    IF i = 0 THEN g
                    ELSE IF nodes[i] \notin reachable
                         THEN remove_node(F[i - 1], nodes[i])
                         ELSE F[i - 1]
            IN [ok |-> TRUE, exc |-> "", G |-> F[Len(nodes)]]

\* prune_graph_to_root keeping the root and its direct successors only
prune_graph_to_root_successors_only(g, root) ==
    LET d == descendants(g, root)
    IN IF ~d.ok THEN [ok |-> FALSE, exc |-> d.exc, G |-> g]
       ELSE LET reachable == Range(g.succ[root]) \cup {root}
                nodes == g.nodes
                F[i \in 0..Len(nodes)] ==
                    IF i = 0 THEN g
                    ELSE IF nodes[i] \notin reachable
                         THEN remove_node(F[i - 1], nodes[i])
                         ELSE F[i - 1]
            IN [ok |-> TRUE, exc |-> "", G |-> F[Len(nodes)]]

\* prune_graph_to_root treating a missing root as a root without descendants
prune_graph_to_root_swallowing(g, root) ==
    LET d == descendants(g, root)
        reachable == (IF d.ok THEN d.val ELSE {}) \cup {root}
        nodes == g.nodes
        F[i \in 0..Len(nodes)] ==
            IF i = 0 THEN g
            ELSE IF nodes[i] \notin reachable
                 THEN remove_node(F[i - 1], nodes[i])
                 ELSE F[i - 1]
    IN [ok |-> TRUE, exc |-> "", G |-> F[Len(nodes)]]

\* reachable = set(nx.descendants(G, root_id)) | {root_id}; for node in
\* list(G.nodes): if node not in reachable: G.remove_node(node)
prune_graph_to_root(g, root) ==
    LET d == descendants(g, root)
    IN IF ~d.ok THEN [ok |-> FALSE, exc |-> d.exc, G |-> g]
       ELSE LET reachable == d.val \cup {root}
                nodes == g.nodes
                F[i \in 0..Len(nodes)] ==
                    IF i = 0 THEN g
                    ELSE IF nodes[i] \notin reachable
                         THEN remove_node(F[i - 1], nodes[i])
                         ELSE F[i - 1]
            IN [ok |-> TRUE, exc |-> "", G |-> F[Len(nodes)]]

\* a caller's G = prune_graph_to_root(G, root_id)
CallPruneToRoot ==
    /\ pc = "call_prune_graph_to_root"
    /\ calls < MaxCalls
    /\ LET r == prune_graph_to_root(G, root_id)
       IN /\ G_in' = G
          /\ G' = r.G
          /\ IF r.ok
             THEN calls' = calls + 1 /\ UNCHANGED <<pc, err, err_at>>
             ELSE Raise(r.exc, "nx.descendants") /\ UNCHANGED calls
    /\ UNCHANGED <<relation_dict, args, root_id, root_candidates, min_level,
                   inputs_read, last_input, output, printed,
                   returned,
                   frames>>

-----------------------------------------------------------------------------
(* prune_graph_to_level *)

\* nodes_to_remove marking the nodes at stop_level as well
nodes_to_remove_at_stop_level(g, stop_level, only_level) ==
    LET F[i \in 0..Len(g.nodes)] ==
            IF i = 0 THEN [nodes |-> <<>>, exc |-> ""]
            ELSE LET prev == F[i - 1]
                     node == g.nodes[i]
                     admin_level == Get(g.data[node], "admin_level")
                     level == int(admin_level)
                 IN IF prev.exc # "" THEN prev
                    ELSE IF admin_level = None THEN prev
                    ELSE IF ~level.ok THEN [prev EXCEPT !.exc = level.exc]
                    ELSE IF stop_level # None /\ level.val >= stop_level.val
                         THEN [prev EXCEPT !.nodes = Append(@, node)]
                    ELSE IF only_level # None /\ level.val # only_level.val
                         THEN [prev EXCEPT !.nodes = Append(@, node)]
                    ELSE prev
    IN F[Len(g.nodes)]

\* nodes_to_remove looking at only_level only when stop_level is None
nodes_to_remove_stop_level_dominates(g, stop_level, only_level) ==
    LET F[i \in 0..Len(g.nodes)] ==
            IF i = 0 THEN [nodes |-> <<>>, exc |-> ""]
            ELSE LET prev == F[i - 1]
                     node == g.nodes[i]
                     admin_level == Get(g.data[node], "admin_level")
                     level == int(admin_level)
                 IN IF prev.exc # "" THEN prev
                    ELSE IF admin_level = None THEN prev
                    ELSE IF ~level.ok THEN [prev EXCEPT !.exc = level.exc]
                    ELSE IF stop_level # None
                         THEN IF level.val > stop_level.val
                              THEN [prev EXCEPT !.nodes = Append(@, node)]
                              ELSE prev
                    ELSE IF only_level # None /\ level.val # only_level.val
                         THEN [prev EXCEPT !.nodes = Append(@, node)]
                    ELSE prev
    IN F[Len(g.nodes)]

\* nodes_to_remove = []; for node, data in G.nodes(data=True): ...
\* (lines 65-74; a failure of int(admin_level) is not caught)
nodes_to_remove(g, stop_level, only_level) ==
    LET F[i \in 0..Len(g.nodes)] ==
            IF i = 0 THEN [nodes |-> <<>>, exc |-> ""]
            ELSE LET prev == F[i - 1]
                     node == g.nodes[i]
                     admin_level == Get(g.data[node], "admin_level")
                     level == int(admin_level)
                 IN IF prev.exc # "" THEN prev
                    ELSE IF admin_level = None THEN prev
                    ELSE IF ~level.ok THEN [prev EXCEPT !.exc = level.exc]
                    ELSE IF stop_level # None /\ level.val > stop_level.val
                         THEN [prev EXCEPT !.nodes = Append(@, node)]
                    ELSE IF only_level # None /\ level.val # only_level.val
                         THEN [prev EXCEPT !.nodes = Append(@, node)]
                    ELSE prev
    IN F[Len(g.nodes)]

\* prune_graph_to_level(G, stop_level, only_level): the diagnostic, the
\* scan, then for node in nodes_to_remove: G.remove_node(node)
prune_graph_to_level(g, stop_level, only_level) ==
    LET texts == IF stop_level # None /\ only_level # None
                 THEN {i18n_string("error_conflict")} ELSE {}
        marked == nodes_to_remove(g, stop_level, only_level)
        F[i \in 0..Len(marked.nodes)] ==
            IF i = 0 THEN g ELSE remove_node(F[i - 1], marked.nodes[i])
    IN IF marked.exc # ""
       THEN [ok |-> FALSE, exc |-> marked.exc, G |-> g, texts |-> texts]
       ELSE [ok |-> TRUE, exc |-> "", G |-> F[Len(marked.nodes)], texts |-> texts]

-----------------------------------------------------------------------------
(* Serializers *)

\* a cycle of g can be reached from node
CycleReachable(g, node) ==
    \E n \in ReachFrom(g, {node}) : n \in ReachFrom(g, Range(g.succ[n]))

RECURSIVE recurse(_, _)
\* recurse following the first successor of a node only
recurse_first_successor_only(g, node) ==
    ("subareas" :> [k \in DOMAIN g.succ[node] \cap {1} |->
                       recurse(g, g.succ[node][k])])
        @@ g.data[node] @@ ("id" :> node)

\* recurse giving a node without successors no "subareas" key
recurse_omitting_empty_subareas(g, node) ==
    IF g.succ[node] = <<>> THEN g.data[node] @@ ("id" :> node)
    ELSE ("subareas" :> [k \in DOMAIN g.succ[node] |-> recurse(g, g.succ[node][k])])
             @@ g.data[node] @@ ("id" :> node)

\* recurse(node) of graph_to_nested_json: {"id": node, **node_data,
\* "subareas": children}
recurse(g, node) ==
    ("subareas" :> [k \in DOMAIN g.succ[node] |-> recurse(g, g.succ[node][k])])
        @@ g.data[node] @@ ("id" :> node)

\* graph_to_nested_json answering a root that is no node with an empty tree
graph_to_nested_json_lenient(g, root) ==
    IF root \notin NodeSet(g)
    THEN [ok |-> TRUE, exc |-> "", val |-> ("subareas" :> <<>>) @@ ("id" :> root)]
    ELSE IF CycleReachable(g, root)
    THEN [ok |-> FALSE, exc |-> "RecursionError", val |-> None]
    ELSE [ok |-> TRUE, exc |-> "", val |-> recurse(g, root)]

\* graph_to_nested_json(G, root_id): G.nodes[root_id] raises KeyError when
\* root_id is no node; the recursion has no guard and ends in
\* RecursionError when a cycle can be reached
graph_to_nested_json(g, root) ==
    IF root \notin NodeSet(g) THEN [ok |-> FALSE, exc |-> "KeyError", val |-> None]
    ELSE IF CycleReachable(g, root)
    THEN [ok |-> FALSE, exc |-> "RecursionError", val |-> None]
    ELSE [ok |-> TRUE, exc |-> "", val |-> recurse(g, root)]

\* graph_to_plain_json leaving out the nodes without attributes
graph_to_plain_json_skipping_bare(g, admin_level) ==
    LET F[i \in 0..Len(g.nodes)] ==
            IF i = 0 THEN [nodes |-> <<>>, exc |-> ""]
            ELSE LET prev == F[i - 1]
                     node == g.nodes[i]
                     data == g.data[node]
                     level == int(IF "admin_level" \in DOMAIN data
                                  THEN data["admin_level"] ELSE PyInt(0))
                     entry == data @@ ("id" :> node)
                 IN IF prev.exc # "" THEN prev
                    ELSE IF DOMAIN data = {} THEN prev
                    ELSE IF admin_level = None
                         THEN [prev EXCEPT !.nodes = Append(@, entry)]
                    ELSE IF ~level.ok THEN [prev EXCEPT !.exc = level.exc]
                    ELSE IF level.val = admin_level.val
                         THEN [prev EXCEPT !.nodes = Append(@, entry)]
                    ELSE prev
        r == F[Len(g.nodes)]
    IN IF r.exc # "" THEN [ok |-> FALSE, exc |-> r.exc, val |-> None]
       ELSE [ok |-> TRUE, exc |-> "", val |-> [nodes |-> r.nodes]]

\* graph_to_plain_json(G, admin_level): the nodes in iteration order,
\* filtered by int(data.get("admin_level", 0)) == admin_level when a level
\* is given
graph_to_plain_json(g, admin_level) ==
    LET F[i \in 0..Len(g.nodes)] ==
            IF i = 0 THEN [nodes |-> <<>>, exc |-> ""]
            ELSE LET prev == F[i - 1]
                     node == g.nodes[i]
                     data == g.data[node]
                     level == int(IF "admin_level" \in DOMAIN data
                                  THEN data["admin_level"] ELSE PyInt(0))
                     entry == data @@ ("id" :> node)
                 IN IF prev.exc # "" THEN prev
                    ELSE IF admin_level = None
                         THEN [prev EXCEPT !.nodes = Append(@, entry)]
                    ELSE IF ~level.ok THEN [prev EXCEPT !.exc = level.exc]
                    ELSE IF level.val = admin_level.val
                         THEN [prev EXCEPT !.nodes = Append(@, entry)]
                    ELSE prev
        r == F[Len(g.nodes)]
    IN IF r.exc # "" THEN [ok |-> FALSE, exc |-> r.exc, val |-> None]
       ELSE [ok |-> TRUE, exc |-> "", val |-> [nodes |-> r.nodes]]

\* G.edges(): the edges by source in node order, then in successor order
RECURSIVE edges_from(_, _)
edges_from(g, i) ==
    IF i > Len(g.nodes) THEN <<>>
    ELSE [k \in DOMAIN g.succ[g.nodes[i]] |-> <<g.nodes[i], g.succ[g.nodes[i]][k]>>]
         \o edges_from(g, i + 1)

\* gv_text writing the edge statements ahead of the node statements, and
\* the name ahead of the admin_level in a label
gv_text_edges_first(g) ==
    [k \in DOMAIN edges_from(g, 1) |->
        [stmt |-> "edge", from |-> edges_from(g, 1)[k][1],
         to |-> edges_from(g, 1)[k][2]]]
    \o [k \in DOMAIN g.nodes |->
           LET node == g.nodes[k]
               data == g.data[node]
           IN [stmt |-> "node", id |-> node,
               label |-> <<IF "name" \in DOMAIN data
                           THEN data["name"] ELSE Str("Unnamed"),
                           IF "admin_level" \in DOMAIN data
                           THEN data["admin_level"] ELSE Str("N/A"),
                           node>>]]

\* the text visualize_graph(G, method="gv") writes: a node statement with
\* the label admin_level, name, id per node, then an edge statement per edge
gv_text(g) ==
    [k \in DOMAIN g.nodes |->
        LET node == g.nodes[k]
            data == g.data[node]
        IN [stmt |-> "node", id |-> node,
            label |-> <<IF "admin_level" \in DOMAIN data
                        THEN data["admin_level"] ELSE Str("N/A"),
                        IF "name" \in DOMAIN data
                        THEN data["name"] ELSE Str("Unnamed"),
                        node>>]]
    \o [k \in DOMAIN edges_from(g, 1) |->
           [stmt |-> "edge", from |-> edges_from(g, 1)[k][1],
            to |-> edges_from(g, 1)[k][2]]]

\* json.dumps(obj, indent=2, ensure_ascii=False): the text of obj
json_dumps(obj) == [indent |-> 2, ensure_ascii |-> FALSE, text_of |-> obj]

\* the outcomes of opening and writing the output file
FileOutcomes == {"written", "open_fails", "write_fails"}

\* an output file of the given content
File(content) == [kind |-> "file", content |-> content]

\* the sizes of the nodes drawn by method "plt":
\* 8000 / (int(G.nodes[node].get("admin_level") or 10) + 1)
plt_sizes(g) ==
    LET F[i \in 0..Len(g.nodes)] ==
            IF i = 0 THEN ""
            ELSE LET admin_level == Get(g.data[g.nodes[i]], "admin_level")
                     level == int(IF admin_level \in {None, Str(<<>>)}
                                  THEN PyInt(10) ELSE admin_level)
                 IN IF F[i - 1] # "" THEN F[i - 1]
                    ELSE IF ~level.ok THEN level.exc
                    ELSE IF level.val + 1 = 0 THEN "ZeroDivisionError"
                    ELSE ""
    IN F[Len(g.nodes)]

\* visualize_graph(G, method, gv_filename, show) when opening and writing
\* the file go as io says: "plt" draws on the screen when show is set and
\* does nothing else, "gv" writes the file, any other method raises
\* ValueError(i18n_string("wrong-vis-method"))
visualize_graph(g, method, show, io) ==
    IF method = "plt"
    THEN IF show /\ plt_sizes(g) # ""
         THEN [ok |-> FALSE, exc |-> plt_sizes(g), text |-> "", file |-> None]
         ELSE [ok |-> TRUE, exc |-> "", text |-> "", file |-> None]
    ELSE IF method = "gv"
    THEN IF io = "written"
         THEN [ok |-> TRUE, exc |-> "", text |-> "", file |-> File(gv_text(g))]
         ELSE [ok |-> FALSE, exc |-> "OSError", text |-> "",
               file |-> IF io = "write_fails" THEN File(<<>>) ELSE None]
    ELSE [ok |-> FALSE, exc |-> "ValueError",
          text |-> i18n_string("wrong-vis-method"), file |-> None]

-----------------------------------------------------------------------------
(* main *)

\* if args.ensure_connected: G = prune_graph_to_root(G, root_id)
PruneToRoot ==
    /\ pc = "after_root"
    /\ args.ensure_connected
    /\ LET r == prune_graph_to_root(G, root_id)
       IN /\ G_in' = G
          /\ G' = r.G
          /\ IF r.ok
             THEN pc' = "after_prune_to_root" /\ UNCHANGED <<err, err_at>>
             ELSE Raise(r.exc, "prune_graph_to_root")
    /\ UNCHANGED <<relation_dict, args, root_id, root_candidates, min_level,
                   inputs_read, last_input, output, printed, calls,
                   returned,
                   frames>>

\* SkipPruneToRoot pruning to the root although ensure_connected is unset
SkipPruneToRoot_pruning ==
    /\ pc = "after_root"
    /\ ~args.ensure_connected
    /\ G' = prune_graph_to_root(G, root_id).G
    /\ pc' = "after_prune_to_root"
    /\ UNCHANGED <<relation_dict, args, root_id, root_candidates, min_level,
                   err, err_at, inputs_read, last_input, output, printed, G_in,
                   calls, returned, frames>>

SkipPruneToRoot ==
    /\ pc = "after_root"
    /\ ~args.ensure_connected
    /\ pc' = "after_prune_to_root"
    /\ UNCHANGED <<relation_dict, args, G, root_id, root_candidates, min_level,
                   err, err_at, inputs_read, last_input, output, printed, G_in,
                   calls,
                   returned,
                   frames>>

\* if args.stop_level is not None or args.only_level is not None:
\*     G = prune_graph_to_level(G, args.stop_level, args.only_level)
PruneToLevel ==
    /\ pc = "after_prune_to_root"
    /\ args.stop_level # None \/ args.only_level # None
    /\ LET r == prune_graph_to_level(G, args.stop_level, args.only_level)
       IN /\ G_in' = G
          /\ G' = r.G
          /\ StdOut(r.texts)
          /\ IF r.ok
             THEN pc' = "serialize" /\ UNCHANGED <<err, err_at>>
             ELSE Raise(r.exc, "prune_graph_to_level")
    /\ UNCHANGED <<relation_dict, args, root_id, root_candidates, min_level,
                   inputs_read, last_input, output, calls,
                   returned,
                   frames>>

SkipPruneToLevel ==
    /\ pc = "after_prune_to_root"
    /\ args.stop_level = None /\ args.only_level = None
    /\ pc' = "serialize"
    /\ UNCHANGED <<relation_dict, args, G, root_id, root_candidates, min_level,
                   err, err_at, inputs_read, last_input, output, printed, G_in,
                   calls,
                   returned,
                   frames>>

\* bool(x) of None or an int
Truthy(x) == x # None /\ x.val # 0

\* if args.output_format == "json": try: ... except Exception as e: print(e)
SerializeJson ==
    /\ pc = "serialize"
    /\ args.output_format = "json"
    /\ LET plain == args.json_schema = "plain"
           spec_level == IF Truthy(args.only_level) THEN args.only_level ELSE None
           r == IF plain THEN graph_to_plain_json(G, spec_level)
                ELSE graph_to_nested_json(G, root_id)
           site == IF plain THEN "graph_to_plain_json" ELSE "graph_to_nested_json"
       IN IF ~r.ok
          THEN /\ err' = r.exc /\ err_at' = site
               /\ StdOut({r.exc})
               /\ UNCHANGED output
          ELSE \E io \in FileOutcomes :
                  IF io = "written"
                  THEN /\ output' = File(json_dumps(r.val))
                       /\ StdOut({i18n_string("message.main.json_output_written")})
                       /\ UNCHANGED <<err, err_at>>
                  ELSE /\ err' = "OSError" /\ err_at' = io
                       /\ StdOut({"OSError"})
                       /\ output' = IF io = "write_fails" THEN File(<<>>) ELSE output
    /\ pc' = "done"
    /\ UNCHANGED <<relation_dict, args, G, root_id, root_candidates, min_level,
                   inputs_read, last_input, G_in, calls,
                   returned,
                   frames>>

\* elif args.output_format == "gv": visualize_graph(G, method="gv", ...)
SerializeGv ==
    /\ pc = "serialize"
    /\ args.output_format = "gv"
    /\ \E io \in FileOutcomes :
          IF io = "written"
          THEN /\ output' = File(gv_text(G))
               /\ pc' = "done"
               /\ UNCHANGED <<err, err_at>>
          ELSE /\ Raise("OSError", io)
               /\ output' = IF io = "write_fails" THEN File(<<>>) ELSE output
    /\ UNCHANGED <<relation_dict, args, G, root_id, root_candidates, min_level,
                   inputs_read, last_input, printed, G_in, calls,
                   returned,
                   frames>>

\* args.output_format is neither "json" nor "gv": the if and the elif of
\* lines 157 and 184 are both skipped and main returns
SerializeNothing ==
    /\ pc = "serialize"
    /\ args.output_format \notin {"json", "gv"}
    /\ pc' = "done"
    /\ UNCHANGED <<relation_dict, args, G, root_id, root_candidates, min_level,
                   err, err_at, inputs_read, last_input, output, printed, G_in,
                   calls, returned,
                   frames>>

-----------------------------------------------------------------------------
(* Inputs: map documents *)

Roles == {"subarea", "outer"}

Member(ref, role) == [type |-> "relation", ref |-> ref, role |-> role]

\* the members of relation i among the placements p = <<owner, ref, role>>
MembersOf(p, i) ==
    LET Owned(x) == x[1] = i
        q == SelectSeq(p, Owned)
    IN [k \in DOMAIN q |-> Member(q[k][2], q[k][3])]

\* the map documents of n relations with keys 1..n and tags of Tags, with
\* at most m members in all, of the roles R and referencing the keys Refs
Worlds(n, m, Tags, Refs, R) ==
    {[i \in 1..n |-> [tags |-> t[i], members |-> MembersOf(p, i)]] :
        t \in [1..n -> Tags],
        p \in UNION {[1..k -> (1..n) \X Refs \X R] : k \in 0..m}}

BuildTags ==
    {[boundary |-> Str("administrative"), admin_level |-> Str(<<"2">>),
      name |-> Str("A")],
     [boundary |-> Str("administrative")],
     [boundary |-> Str("political"), admin_level |-> Str(<<"2">>)],
     [type |-> Str("route")]}

NoArgs ==
    [root_select_strategy |-> "auto", ensure_connected |-> FALSE,
     stop_level |-> None, only_level |-> None,
     output_format |-> "json", json_schema |-> "nest"]

IsAdministrative(rel) ==
    "boundary" \in DOMAIN rel.tags /\ rel.tags["boundary"] = Str("administrative")

-----------------------------------------------------------------------------
(* The graph builder on its own *)

InitBuild ==
    /\ relation_dict \in
          Worlds(MaxRel, MaxMembers, BuildTags, 1..(MaxRel + 1), Roles)
    /\ args = NoArgs
    /\ G = EmptyGraph
    /\ root_id = 0
    /\ root_candidates = <<>>
    /\ min_level = Inf
    /\ pc = "build"
    /\ err = "" /\ err_at = ""
    /\ inputs_read = 0
    /\ last_input = <<>>
    /\ output = None
    /\ printed = {}
    /\ G_in = EmptyGraph
    /\ calls = 0
    /\ returned = None
    /\ frames = <<>>

\* main: G = build_graph(world); print("args.output_format =", ...)
Build ==
    /\ pc = "build"
    /\ G' = build_graph(relation_dict)
    /\ StdOut({"args.output_format ="})
    /\ pc' = "find_root"
    /\ UNCHANGED <<relation_dict, args, root_id, root_candidates, min_level, err,
                   err_at, inputs_read, last_input, output, G_in, calls,
                   returned,
                   frames>>

SpecBuild == InitBuild /\ [][Build]_vars

\* C1: after build_graph a node exists in the graph if and only if its
\* source relation is tagged boundary=administrative
C1_NodesAreAdministrative ==
    pc = "find_root" =>
        NodeSet(G) = {i \in DOMAIN relation_dict : IsAdministrative(relation_dict[i])}

\* C2: after build_graph an edge A->B exists if and only if A is an
\* administrative relation with a subarea member referencing B, B is a key
\* of the mapping and B is tagged boundary=administrative
C2_EdgesBetweenAdministrative ==
    pc = "find_root" =>
        EdgeSet(G) =
            {<<a, b>> \in (DOMAIN relation_dict) \X (DOMAIN relation_dict) :
                /\ IsAdministrative(relation_dict[a])
                /\ IsAdministrative(relation_dict[b])
                /\ \E k \in DOMAIN relation_dict[a].members :
                       /\ relation_dict[a].members[k].role = "subarea"
                       /\ relation_dict[a].members[k].ref = b}

-----------------------------------------------------------------------------
(* Inputs: graphs *)

RECURSIVE SortedSeq(_)
\* the elements of a set of numbers in ascending order
SortedSeq(S) ==
    IF S = {} THEN <<>>
    ELSE LET m == CHOOSE x \in S : \A y \in S : x <= y
         IN <<m>> \o SortedSeq(S \ {m})

\* the DiGraph whose nodes 1..n were added in this order with the attribute
\* dicts d, and whose edges E were added in ascending order
GraphOf(n, d, E) ==
    [nodes |-> [i \in 1..n |-> i],
     succ |-> [u \in 1..n |-> SortedSeq({v \in 1..n : <<u, v>> \in E})],
     data |-> d]

AdminLevelStrings == {<<"2">>, <<"0", "2">>, <<"4">>, <<"x">>}

\* the attribute dict add_node gives a node
Attrs(admin_level) ==
    [admin_level |-> admin_level, name |-> Str("A"), ref |-> None]

\* attribute dicts: of a node add_edge made, of a relation without
\* admin_level, of a relation with one
NodeDicts == {<<>>, Attrs(None)} \cup {Attrs(Str(c)) : c \in AdminLevelStrings}

Strategies == {"input", "highest", "auto", "lowest"}

-----------------------------------------------------------------------------
(* The root selector on its own *)

InitRoot ==
    /\ relation_dict = <<>>
    /\ \E st \in Strategies : args = [NoArgs EXCEPT !.root_select_strategy = st]
    /\ \E n \in 0..MaxRel : \E d \in [1..n -> NodeDicts] : G = GraphOf(n, d, {})
    /\ root_id = 0
    /\ root_candidates = <<>>
    /\ min_level = Inf
    /\ pc = "find_root"
    /\ err = "" /\ err_at = ""
    /\ inputs_read = 0
    /\ last_input = <<>>
    /\ output = None
    /\ printed = {}
    /\ G_in = EmptyGraph
    /\ calls = 0
    /\ returned = None
    /\ frames = <<>>

SpecRoot == InitRoot /\ [][FindRootStart \/ ReadRootNodeId \/ ReadRootChoice]_vars

\* the node's admin_level is present and parses as an integer
Parseable(g, n) ==
    LET a == Get(g.data[n], "admin_level") IN a # None /\ int(a).ok

LevelOf(g, n) == int(Get(g.data[n], "admin_level")).val

\* the nodes of the minimum integer level among the parseable nodes
MinLevelNodes(g) ==
    {n \in NodeSet(g) :
        /\ Parseable(g, n)
        /\ \A m \in NodeSet(g) : Parseable(g, m) => LevelOf(g, n) <= LevelOf(g, m)}

Scanning == args.root_select_strategy \in {"auto", "highest"}

\* C3: under auto or highest, when exactly one node has the minimum integer
\* admin_level, find_root_node_id returns that node and reads no input
C3_UniqueMinimumReturned ==
    (Scanning /\ pc # "find_root" /\ Cardinality(MinLevelNodes(G)) = 1) =>
        /\ pc = "after_root"
        /\ root_id \in MinLevelNodes(G)
        /\ inputs_read = 0

C3_Witness ==
    /\ Scanning /\ pc = "after_root"
    /\ Cardinality(MinLevelNodes(G)) = 1
    /\ \E n \in NodeSet(G) \ MinLevelNodes(G) : Parseable(G, n)
    /\ root_id # G.nodes[1]

\* C4: under auto or highest, when two or more nodes share the minimum
\* level, find_root_node_id returns only after an operator input, and only
\* the tied candidate the operator entered
C4_TieNeedsOperator ==
    (Scanning /\ pc # "find_root" /\ Cardinality(MinLevelNodes(G)) >= 2) =>
        /\ inputs_read = 0 => pc = "prompt_multiple_root_nodes"
        /\ pc \in {"prompt_multiple_root_nodes", "after_root"}
        /\ pc = "after_root" =>
              /\ inputs_read >= 1
              /\ root_id \in MinLevelNodes(G)
              /\ int(Str(last_input)).ok
              /\ int(Str(last_input)).val = root_id

C4_Witness ==
    /\ Scanning /\ pc = "after_root"
    /\ Cardinality(MinLevelNodes(G)) >= 2
    /\ NodeSet(G) # MinLevelNodes(G)
    /\ inputs_read >= 2
    /\ root_id # root_candidates[1]

NoneParseable == \A n \in NodeSet(G) : ~Parseable(G, n)

\* C5: when no admin_level parses as an integer, highest fails with the
\* "no root found" error and reads no input; auto prompts for a manual
\* identifier and returns what the operator entered
C5_NoParseableLevel ==
    (NoneParseable /\ pc # "find_root") =>
        /\ args.root_select_strategy = "highest" =>
              /\ pc = "crashed"
              /\ err = "ValueError" /\ err_at = "no_root_node_found"
              /\ inputs_read = 0
        /\ args.root_select_strategy = "auto" =>
              /\ err_at # "no_root_node_found"
              /\ inputs_read = 0 => pc = "prompt_manual_root_node_id"
              /\ pc = "after_root" =>
                    /\ inputs_read = 1
                    /\ int(Str(last_input)).ok
                    /\ root_id = int(Str(last_input)).val

C5_Witness ==
    /\ args.root_select_strategy = "auto"
    /\ NoneParseable /\ G.nodes # <<>>
    /\ pc = "after_root"
    /\ inputs_read = 1

RECURSIVE RemoveAll(_, _)
\* g after remove_node of every node of the set S
RemoveAll(g, S) ==
    IF S = {} THEN g
    ELSE LET n == CHOOSE x \in S : TRUE IN RemoveAll(remove_node(g, n), S \ {n})

Unparseable(g) == {n \in NodeSet(g) : ~Parseable(g, n)}

\* C6: under auto or highest, nodes whose admin_level is missing or does
\* not parse are skipped: never candidates, never an error, and the
\* candidates and the minimum level are those of the graph without them
C6_UnparseableSkipped ==
    (Scanning /\ pc # "find_root") =>
        /\ err_at # "int(admin_level)"
        /\ Range(root_candidates) \cap Unparseable(G) = {}
        /\ Range(root_candidates) = MinLevelNodes(G)
        /\ LET s == scan_root_candidates(RemoveAll(G, Unparseable(G)))
           IN root_candidates = s.root_candidates /\ min_level = s.min_level

C6_Witness ==
    /\ Scanning /\ pc # "find_root"
    /\ \E n \in NodeSet(G) : Get(G.data[n], "admin_level") = None
    /\ \E n \in NodeSet(G) :
          Get(G.data[n], "admin_level") # None /\ ~Parseable(G, n)
    /\ root_candidates # <<>>

-----------------------------------------------------------------------------
(* Reachability pruning on its own *)

\* node i carries the admin_level str(i)
OwnLevelData(n) == [i \in 1..n |-> Attrs(Str(<<Digits[i + 1]>>))]

InitPruneRoot ==
    /\ relation_dict = <<>>
    /\ args = NoArgs
    /\ \E E \in SUBSET ((1..MaxRel) \X (1..MaxRel)) :
          G = GraphOf(MaxRel, OwnLevelData(MaxRel), E)
    /\ root_id \in 1..(MaxRel + 1)
    /\ root_candidates = <<>>
    /\ min_level = Inf
    /\ pc = "call_prune_graph_to_root"
    /\ err = "" /\ err_at = ""
    /\ inputs_read = 0
    /\ last_input = <<>>
    /\ output = None
    /\ printed = {}
    /\ G_in = EmptyGraph
    /\ calls = 0
    /\ returned = None
    /\ frames = <<>>

SpecPruneRoot == InitPruneRoot /\ [][CallPruneToRoot]_vars

\* the set K holds n and the successors in g of each of its nodes
ClosedFrom(g, K, n) ==
    /\ n \in K
    /\ \A u \in K : Range(g.succ[u]) \subseteq K

\* C8: after prune_graph_to_root(G, root_id) with root_id a node of G, the
\* nodes are the root and the nodes reachable from it in the original G
\* (the least set holding the root and closed under successors), and the
\* edges are the original edges between kept nodes
C8_PruneKeepsReachable ==
    (calls >= 1 /\ pc = "call_prune_graph_to_root") =>
        /\ NodeSet(G) \subseteq NodeSet(G_in)
        /\ ClosedFrom(G_in, NodeSet(G), root_id)
        /\ \A K \in SUBSET NodeSet(G_in) :
              ClosedFrom(G_in, K, root_id) => NodeSet(G) \subseteq K
        /\ EdgeSet(G) = EdgeSet(G_in) \cap (NodeSet(G) \X NodeSet(G))

C8_Witness ==
    /\ calls = 1 /\ pc = "call_prune_graph_to_root"
    /\ NodeSet(G) # NodeSet(G_in)
    /\ NodeSet(G) # {root_id}
    /\ EdgeSet(G) # EdgeSet(G_in) /\ EdgeSet(G) # {}

\* C9: prune_graph_to_root(G, root_id) with root_id not a node of G fails
\* with the graph library's node-not-found error and leaves G unchanged
C9_MissingRootRaises ==
    /\ pc = "crashed" =>
          /\ err = "NetworkXError"
          /\ root_id \notin NodeSet(G_in)
          /\ G = G_in
    /\ calls >= 1 => root_id \in NodeSet(G_in)

C9_Witness ==
    /\ pc = "crashed" /\ err = "NetworkXError"
    /\ root_id \notin NodeSet(G)
    /\ EdgeSet(G) # {}

\* C10: applying prune_graph_to_root twice with the same root yields the
\* same nodes, edges and attributes as applying it once: the second call
\* succeeds and returns the graph it was handed
C10_PruneIdempotent ==
    /\ calls >= 2 => G = G_in
    /\ calls >= 1 => pc # "crashed" /\ root_id \in NodeSet(G)

C10_Witness ==
    /\ calls = 2 /\ pc = "call_prune_graph_to_root"
    /\ Len(G.nodes) < MaxRel
    /\ Len(G.nodes) >= 2

-----------------------------------------------------------------------------
(* A run of main *)

MainRel == 2        \* relations of the map document of a run
MainMembers == 1    \* members of all relations of that map document

MainTags ==
    {[boundary |-> Str("administrative"), admin_level |-> Str(<<"2">>),
      name |-> Str("A")],
     [boundary |-> Str("administrative"), admin_level |-> Str(<<"4">>),
      name |-> Str("B")],
     [type |-> Str("route")]}

\* the configuration values: the levels are None or an int
MainArgs ==
    {[root_select_strategy |-> st, ensure_connected |-> ec,
      stop_level |-> sl, only_level |-> ol,
      output_format |-> f[1], json_schema |-> f[2]] :
        st \in {"input", "highest", "auto"}, ec \in BOOLEAN,
        sl \in {None, PyInt(2)}, ol \in {None, PyInt(4)},
        f \in {<<"json", "nest">>, <<"json", "plain">>, <<"gv", "nest">>}}

InitMain ==
    /\ relation_dict \in
          Worlds(MainRel, MainMembers, MainTags, 1..MainRel, {"subarea"})
    /\ args \in MainArgs
    /\ G = EmptyGraph
    /\ root_id = 0
    /\ root_candidates = <<>>
    /\ min_level = Inf
    /\ pc = "build"
    /\ err = "" /\ err_at = ""
    /\ inputs_read = 0
    /\ last_input = <<>>
    /\ output = None
    /\ printed = {}
    /\ G_in = EmptyGraph
    /\ calls = 0
    /\ returned = None
    /\ frames = <<>>

NextMain ==
    \/ Build
    \/ FindRootStart
    \/ ReadRootNodeId
    \/ ReadRootChoice
    \/ PruneToRoot
    \/ SkipPruneToRoot
    \/ PruneToLevel
    \/ SkipPruneToLevel
    \/ SerializeJson
    \/ SerializeGv

SpecMain == InitMain /\ [][NextMain]_vars

\* C7: under strategy input, find_root_node_id prompts without scanning
\* and returns the entered identifier unvalidated; an identifier that is
\* no node of the graph fails only at its first use, as node-not-found in
\* prune_graph_to_root or in graph_to_nested_json
C7_InputRootNotValidated ==
    (args.root_select_strategy = "input" /\ pc \notin {"build", "find_root"}) =>
        LET selected == pc # "prompt_root_node_id" /\ err_at # "int(input())"
            missing == root_id \notin NodeSet(build_graph(relation_dict))
        IN /\ root_candidates = <<>> /\ min_level = Inf
           /\ inputs_read = IF pc = "prompt_root_node_id" THEN 0 ELSE 1
           /\ err_at = "int(input())" => ~int(Str(last_input)).ok
           /\ selected => /\ int(Str(last_input)).ok
                          /\ root_id = int(Str(last_input)).val
           /\ (selected /\ missing) =>
                 /\ err # "" =>
                       \/ err = "NetworkXError" /\ err_at = "prune_graph_to_root"
                       \/ err = "KeyError" /\ err_at = "graph_to_nested_json"
                       \/ err = "OSError"
                 /\ (args.ensure_connected /\ pc # "after_root") =>
                       /\ pc = "crashed"
                       /\ err = "NetworkXError" /\ err_at = "prune_graph_to_root"
                 /\ (/\ ~args.ensure_connected
                     /\ args.output_format = "json"
                     /\ args.json_schema # "plain"
                     /\ pc = "done") =>
                       /\ err = "KeyError" /\ err_at = "graph_to_nested_json"
                       /\ output = None

C7_Witness ==
    /\ args.root_select_strategy = "input"
    /\ root_id \notin NodeSet(build_graph(relation_dict))
    /\ build_graph(relation_dict) # EmptyGraph
    /\ args.only_level # None
    /\ G # build_graph(relation_dict)
    /\ pc = "done"
    /\ err = "KeyError" /\ err_at = "graph_to_nested_json"

-----------------------------------------------------------------------------
(* Level pruning on its own *)

LevelNodes == 3    \* nodes of a graph handed to level pruning

LevelStrings == {<<"2">>, <<"0", "4">>, <<"6">>, <<"x">>}

\* attribute dicts: of a node add_edge made, of a relation without
\* admin_level, of a relation with one
LevelDicts == {<<>>, Attrs(None)} \cup {Attrs(Str(c)) : c \in LevelStrings}

\* the edges from a node to a node added later
ForwardEdges(n) == {e \in (1..n) \X (1..n) : e[1] < e[2]}

\* the values of --stop-level and --only-level (type=int, default None)
LevelArgs ==
    {[NoArgs EXCEPT !.stop_level = sl, !.only_level = ol] :
        sl \in {None, PyInt(2), PyInt(4)}, ol \in {None, PyInt(4)}}

InitLevel ==
    /\ relation_dict = <<>>
    /\ args \in LevelArgs
    /\ \E d \in [1..LevelNodes -> LevelDicts] :
          \E E \in SUBSET ForwardEdges(LevelNodes) :
             G = GraphOf(LevelNodes, d, E)
    /\ root_id = 1
    /\ root_candidates = <<>>
    /\ min_level = Inf
    /\ pc = "after_prune_to_root"
    /\ err = "" /\ err_at = ""
    /\ inputs_read = 0
    /\ last_input = <<>>
    /\ output = None
    /\ printed = {}
    /\ G_in = EmptyGraph
    /\ calls = 0
    /\ returned = None
    /\ frames = <<>>

SpecLevel == InitLevel /\ [][PruneToLevel \/ SkipPruneToLevel]_vars

\* the node has an admin_level
Present(g, n) == Get(g.data[n], "admin_level") # None

\* every admin_level of the graph parses as an integer
AllParse(g) == \A n \in NodeSet(g) : Present(g, n) => Parseable(g, n)

\* prune_graph_to_level has been called with only_level alone
OnlyLevelCalled ==
    pc # "after_prune_to_root" /\ args.stop_level = None /\ args.only_level # None

\* prune_graph_to_level has been called with stop_level alone
StopLevelCalled ==
    pc # "after_prune_to_root" /\ args.stop_level # None /\ args.only_level = None

\* prune_graph_to_level has been called with both levels
BothLevelsCalled ==
    pc # "after_prune_to_root" /\ args.stop_level # None /\ args.only_level # None

\* C11: after prune_graph_to_level(G, only_level=L) with stop_level unset,
\* every remaining node with a parsed admin_level has the level L, every node
\* whose admin_level parses to another value is removed, and the nodes with
\* an unparseable or missing admin_level are still present with unchanged
\* attributes, no error being raised
C11_OnlyLevelExact ==
    OnlyLevelCalled =>
        /\ pc = "serialize" /\ err = ""
        /\ \A n \in NodeSet(G) :
              Parseable(G, n) => LevelOf(G, n) = args.only_level.val
        /\ \A n \in NodeSet(G_in) :
              (Parseable(G_in, n) /\ LevelOf(G_in, n) # args.only_level.val)
                  => n \notin NodeSet(G)
        /\ \A n \in NodeSet(G_in) :
              ~Parseable(G_in, n) => n \in NodeSet(G) /\ G.data[n] = G_in.data[n]

\* C12: after prune_graph_to_level(G, stop_level=S) with only_level unset,
\* a node with an admin_level is removed if and only if its integer level is
\* strictly greater than S; the nodes of level <= S and the nodes without
\* admin_level are kept with their attributes, and the edges among the kept
\* nodes are the original ones
C12_StopLevelStrict ==
    StopLevelCalled =>
        /\ AllParse(G_in) => pc = "serialize"
        /\ pc = "serialize" =>
              LET kept == {n \in NodeSet(G_in) :
                              ~(Present(G_in, n)
                                /\ LevelOf(G_in, n) > args.stop_level.val)}
              IN /\ NodeSet(G) = kept
                 /\ EdgeSet(G) = EdgeSet(G_in) \cap (kept \X kept)
                 /\ \A n \in kept : G.data[n] = G_in.data[n]

C12_Witness ==
    /\ StopLevelCalled /\ pc = "serialize"
    /\ NodeSet(G) # NodeSet(G_in)
    /\ \E n \in NodeSet(G) :
          Present(G, n) /\ LevelOf(G, n) = args.stop_level.val
    /\ \E n \in NodeSet(G) : ~Present(G, n)
    /\ EdgeSet(G) # {} /\ EdgeSet(G) # EdgeSet(G_in)

C14_MalformedNeverRaises ==
    (/\ pc # "after_prune_to_root"
     /\ args.stop_level # None \/ args.only_level # None
     /\ \E n \in NodeSet(G_in) : Present(G_in, n) /\ ~Parseable(G_in, n)) =>
        pc = "serialize" /\ err = ""

-----------------------------------------------------------------------------
(* The serializers on their own *)

SerNodes == 3    \* nodes of a graph handed to a serializer

\* the sequence s from its last element to its first
Reverse(s) == [k \in DOMAIN s |-> s[Len(s) + 1 - k]]

\* GraphOf with the edges added in descending order
GraphOfDesc(n, d, E) ==
    [GraphOf(n, d, E) EXCEPT !.succ = [u \in 1..n |-> Reverse(GraphOf(n, d, E).succ[u])]]

\* the graphs handed to a serializer: every choice of attribute dicts
\* without edges, and every acyclic edge set in both orders of insertion
SerGraphs ==
    {GraphOf(SerNodes, d, {}) : d \in [1..SerNodes -> LevelDicts]}
        \cup {GraphOf(SerNodes, OwnLevelData(SerNodes), E) :
                 E \in SUBSET ForwardEdges(SerNodes)}
        \cup {GraphOfDesc(SerNodes, OwnLevelData(SerNodes), E) :
                 E \in SUBSET ForwardEdges(SerNodes)}

\* the levels handed to graph_to_plain_json
PlainLevels == {None, PyInt(0), PyInt(4)}

InitJson ==
    /\ relation_dict = <<>>
    /\ args = NoArgs
    /\ G \in SerGraphs
    /\ root_id \in 1..(SerNodes + 1)
    /\ root_candidates = <<>>
    /\ min_level = Inf
    /\ pc = "call_serializer"
    /\ err = "" /\ err_at = ""
    /\ inputs_read = 0
    /\ last_input = <<>>
    /\ output = None
    /\ printed = {}
    /\ G_in = EmptyGraph
    /\ calls = 0
    /\ returned = None
    /\ frames = <<>>

\* a caller's graph_to_nested_json(G, root_id)
CallNestedJson ==
    /\ pc = "call_serializer"
    /\ returned' = [call |-> "graph_to_nested_json", admin_level |-> None,
                    result |-> graph_to_nested_json(G, root_id)]
    /\ pc' = "called"
    /\ UNCHANGED <<relation_dict, args, G, root_id, root_candidates, min_level,
                   err, err_at, inputs_read, last_input, output, printed, G_in,
                   calls,
                   frames>>

\* a caller's graph_to_plain_json(G, admin_level)
CallPlainJson ==
    /\ pc = "call_serializer"
    /\ \E admin_level \in PlainLevels :
          returned' = [call |-> "graph_to_plain_json", admin_level |-> admin_level,
                       result |-> graph_to_plain_json(G, admin_level)]
    /\ pc' = "called"
    /\ UNCHANGED <<relation_dict, args, G, root_id, root_candidates, min_level,
                   err, err_at, inputs_read, last_input, output, printed, G_in,
                   calls,
                   frames>>

SpecJson == InitJson /\ [][CallNestedJson \/ CallPlainJson]_vars

NestedCalled == pc = "called" /\ returned.call = "graph_to_nested_json"
PlainCalled == pc = "called" /\ returned.call = "graph_to_plain_json"

RECURSIVE NestedOf(_, _, _)
\* rec is the record of node: its id, its attributes and the records of
\* its successors in successor order under "subareas"
NestedOf(g, rec, node) ==
    /\ DOMAIN rec = {"id", "subareas"} \cup DOMAIN g.data[node]
    /\ rec["id"] = node
    /\ \A key \in DOMAIN g.data[node] : rec[key] = g.data[node][key]
    /\ Len(rec["subareas"]) = Len(g.succ[node])
    /\ \A k \in DOMAIN g.succ[node] :
          NestedOf(g, rec["subareas"][k], g.succ[node][k])

\* C15: on an acyclic graph with root_id a node, graph_to_nested_json
\* returns for each visited node a record of its id, all its attributes and
\* a "subareas" list of the records of exactly its direct successors in
\* successor order; a node without outgoing edges has the empty list
C15_NestedRecords ==
    (NestedCalled /\ root_id \in NodeSet(G)) =>
        /\ returned.result.ok
        /\ NestedOf(G, returned.result.val, root_id)

C15_Witness ==
    /\ NestedCalled /\ returned.result.ok
    /\ Len(G.succ[root_id]) >= 2
    /\ G.succ[root_id][1] > G.succ[root_id][2]
    /\ returned.result.val["subareas"][2]["subareas"] # <<>>
    /\ returned.result.val["subareas"][1]["subareas"] = <<>>

RECURSIVE NestedIds(_)
\* the ids of the records of a nested record, in the order they are written
NestedIds(rec) ==
    LET sub == rec["subareas"]
        F[k \in 0..Len(sub)] ==
            IF k = 0 THEN <<>> ELSE F[k - 1] \o NestedIds(sub[k])
    IN <<rec["id"]>> \o F[Len(sub)]

\* the ids of the entries of a flat list
PlainIds(val) == [k \in DOMAIN val.nodes |-> val.nodes[k]["id"]]

\* the number of times x occurs in the sequence s
Count(s, x) == Cardinality({k \in DOMAIN s : s[k] = x})

\* no cycle, and no node with two predecessors
TreeShaped(g) ==
    /\ \A n \in NodeSet(g) : n \notin ReachFrom(g, Range(g.succ[n]))
    /\ \A v \in NodeSet(g) :
          Cardinality({u \in NodeSet(g) : <<u, v>> \in EdgeSet(g)}) <= 1

\* C16: graph_to_plain_json without level filter emits exactly one entry
\* per node of the graph, and graph_to_nested_json on a tree-shaped graph
\* emits every node reachable from the root exactly once and no other node
C16_NodeCountAgreement ==
    /\ (PlainCalled /\ returned.admin_level = None) =>
          /\ returned.result.ok
          /\ \A n \in NodeSet(G) : Count(PlainIds(returned.result.val), n) = 1
          /\ Len(returned.result.val.nodes) = Len(G.nodes)
    /\ (NestedCalled /\ root_id \in NodeSet(G) /\ TreeShaped(G)) =>
          /\ returned.result.ok
          /\ \A n \in NodeSet(G) :
                Count(NestedIds(returned.result.val), n) =
                    IF n \in ReachFrom(G, {root_id}) THEN 1 ELSE 0

C16_Witness ==
    /\ NestedCalled /\ TreeShaped(G) /\ returned.result.ok
    /\ Len(G.succ[root_id]) >= 2
    /\ Len(NestedIds(returned.result.val)) = SerNodes
    /\ graph_to_plain_json(G, None).ok
    /\ Len(graph_to_plain_json(G, None).val.nodes) = SerNodes

\* the nodes of g whose admin_level parses to the integer level, in node order
NodesAtLevel(g, level) ==
    LET AtLevel(n) == Parseable(g, n) /\ LevelOf(g, n) = level
    IN SelectSeq(g.nodes, AtLevel)

\* C18: graph_to_plain_json(G, admin_level=L) with L given returns exactly
\* the nodes of G whose admin_level parses to the integer L, each with its id
\* and attributes; a node whose admin_level is missing or null is left out
\* without an error
C18_PlainLevelFilter ==
    (PlainCalled /\ returned.admin_level # None) =>
        /\ returned.result.ok
        /\ PlainIds(returned.result.val) = NodesAtLevel(G, returned.admin_level.val)
        /\ \A k \in DOMAIN returned.result.val.nodes :
              LET entry == returned.result.val.nodes[k]
              IN \A key \in DOMAIN G.data[entry["id"]] :
                    entry[key] = G.data[entry["id"]][key]

-----------------------------------------------------------------------------
(* A run of main that writes the flat list of the freshly built graph *)

FlatRel == 3    \* relations of the map document of such a run

FlatTags ==
    {[boundary |-> Str("administrative"), admin_level |-> Str(<<"2">>),
      name |-> Str("A")],
     [type |-> Str("route")]}

\* --root-select-strategy input --json-schema plain, no pruning
FlatArgs == [NoArgs EXCEPT !.root_select_strategy = "input", !.json_schema = "plain"]

InitFlat ==
    /\ relation_dict \in
          Worlds(FlatRel, MainMembers, FlatTags, 1..(FlatRel + 1), Roles)
    /\ args = FlatArgs
    /\ G = EmptyGraph
    /\ root_id = 0
    /\ root_candidates = <<>>
    /\ min_level = Inf
    /\ pc = "build"
    /\ err = "" /\ err_at = ""
    /\ inputs_read = 0
    /\ last_input = <<>>
    /\ output = None
    /\ printed = {}
    /\ G_in = EmptyGraph
    /\ calls = 0
    /\ returned = None
    /\ frames = <<>>

NextFlat ==
    \/ Build
    \/ FindRootStart
    \/ ReadRootNodeId
    \/ SkipPruneToRoot
    \/ SkipPruneToLevel
    \/ SerializeJson

SpecFlat == InitFlat /\ [][NextFlat]_vars

\* the flat list has been written to the output file
FlatWritten == pc = "done" /\ err = "" /\ output # None

\* the keys of the administrative relations in the order of the mapping
AdministrativeKeys(rd) ==
    LET Administrative(i) == IsAdministrative(rd[i])
    IN SelectSeq([i \in DOMAIN rd |-> i], Administrative)

\* the administrative relation a has a subarea member referencing n
Names(rd, a, n) ==
    /\ IsAdministrative(rd[a])
    /\ \E k \in DOMAIN rd[a].members :
          rd[a].members[k].role = "subarea" /\ rd[a].members[k].ref = n

\* where the build first meets the relation n: the first administrative
\* relation that is n or names n, and there 0 for the relation itself or
\* the index of the first member naming n
FirstMet(rd, n) ==
    LET Meets(a) == (a = n /\ IsAdministrative(rd[a])) \/ Names(rd, a, n)
        a == CHOOSE x \in DOMAIN rd :
                 Meets(x) /\ \A y \in DOMAIN rd : Meets(y) => x <= y
        k == IF a = n THEN 0
             ELSE CHOOSE x \in DOMAIN rd[a].members :
                      /\ rd[a].members[x].role = "subarea"
                      /\ rd[a].members[x].ref = n
                      /\ \A y \in 1..(x - 1) :
                            ~(rd[a].members[y].role = "subarea"
                              /\ rd[a].members[y].ref = n)
    IN <<a, k>>

\* the build meets a before b
MetBefore(rd, a, b) ==
    \/ FirstMet(rd, a)[1] < FirstMet(rd, b)[1]
    \/ FirstMet(rd, a)[1] = FirstMet(rd, b)[1] /\ FirstMet(rd, a)[2] < FirstMet(rd, b)[2]

\* C17 as stated: the flat list of the freshly built graph lists the nodes
\* in the order the administrative relations appear in the input mapping
\* (stated for the documents whose graph has administrative nodes only)
C17_MappingOrder ==
    (FlatWritten
     /\ \A n \in NodeSet(G) : IsAdministrative(relation_dict[n])) =>
        PlainIds(output.content.text_of) = AdministrativeKeys(relation_dict)

\* C17: the flat list of the freshly built graph lists the nodes in the
\* graph's insertion order, and that order is the order in which the build
\* first meets each relation: as an administrative relation of the mapping
\* or, earlier, as a subarea member of an administrative relation before it
C17_FirstMetOrder ==
    FlatWritten =>
        LET ids == PlainIds(output.content.text_of)
        IN /\ ids = G.nodes
           /\ Range(ids) =
                 {n \in DOMAIN relation_dict :
                     \/ IsAdministrative(relation_dict[n])
                     \/ \E a \in DOMAIN relation_dict : Names(relation_dict, a, n)}
           /\ \A p, q \in DOMAIN ids :
                 p < q => MetBefore(relation_dict, ids[p], ids[q])

C17_Witness ==
    /\ FlatWritten
    /\ \A n \in DOMAIN relation_dict : IsAdministrative(relation_dict[n])
    /\ PlainIds(output.content.text_of) # AdministrativeKeys(relation_dict)
    /\ Len(output.content.text_of.nodes) = FlatRel

-----------------------------------------------------------------------------
(* The failures of the serialization stage of main *)

\* the stages of serializing the graph and writing the output file
SerializeStages ==
    {"graph_to_plain_json", "graph_to_nested_json", "open_fails", "write_fails"}

\* C19: an exception raised while serializing the graph or writing the
\* output file, in the json and in the gv format, is caught in main and
\* printed, and the run ends normally with no content in an output file
C19_SerializeErrorsCaught ==
    (err # "" /\ err_at \in SerializeStages) =>
        /\ pc = "done"
        /\ err \in printed
        /\ output \in {None, File(<<>>)}

-----------------------------------------------------------------------------
(* The output-format and visualization-method selectors *)

\* the values of args.output_format a caller of main may have set: the two
\* of the command line's choices and two others
OutputFormats == {"json", "gv", "xml", ""}

\* the methods handed to visualize_graph
Methods == {"gv", "plt", "png", ""}

InitFormat ==
    /\ relation_dict = <<>>
    /\ \E f \in OutputFormats : \E js \in {"nest", "plain"} :
          args = [NoArgs EXCEPT !.output_format = f, !.json_schema = js]
    /\ \E E \in SUBSET ForwardEdges(SerNodes) :
          G = GraphOf(SerNodes, OwnLevelData(SerNodes), E)
    /\ root_id \in 1..SerNodes
    /\ root_candidates = <<>>
    /\ min_level = Inf
    /\ pc \in {"serialize", "call_visualize_graph"}
    /\ err = "" /\ err_at = ""
    /\ inputs_read = 0
    /\ last_input = <<>>
    /\ output = None
    /\ printed = {}
    /\ G_in = EmptyGraph
    /\ calls = 0
    /\ returned = None
    /\ frames = <<>>

\* a caller's visualize_graph(G, method=method, show=show)
CallVisualizeGraph ==
    /\ pc = "call_visualize_graph"
    /\ \E method \in Methods : \E show \in BOOLEAN : \E io \in FileOutcomes :
          LET r == visualize_graph(G, method, show, io)
          IN /\ returned' = [call |-> "visualize_graph", method |-> method,
                             show |-> show, result |-> r]
             /\ output' = r.file
    /\ pc' = "called"
    /\ UNCHANGED <<relation_dict, args, G, root_id, root_candidates, min_level,
                   err, err_at, inputs_read, last_input, printed, G_in, calls,
                   frames>>

NextFormat ==
    \/ SerializeJson
    \/ SerializeGv
    \/ SerializeNothing
    \/ CallVisualizeGraph

SpecFormat == InitFormat /\ [][NextFormat]_vars

-----------------------------------------------------------------------------
(* The Graphviz writer on its own *)

InitGv ==
    /\ relation_dict = <<>>
    /\ args = NoArgs
    /\ G \in SerGraphs
    /\ root_id = 1
    /\ root_candidates = <<>>
    /\ min_level = Inf
    /\ pc = "call_visualize_graph"
    /\ err = "" /\ err_at = ""
    /\ inputs_read = 0
    /\ last_input = <<>>
    /\ output = None
    /\ printed = {}
    /\ G_in = EmptyGraph
    /\ calls = 0
    /\ returned = None
    /\ frames = <<>>

SpecGv == InitGv /\ [][CallVisualizeGraph]_vars

\* visualize_graph(G, method="gv") has written its file
GvWritten ==
    /\ pc = "called"
    /\ returned.call = "visualize_graph"
    /\ returned.method = "gv"
    /\ returned.result.ok

\* the position of the node n in the node order of g
NodeIndex(g, n) == CHOOSE k \in DOMAIN g.nodes : g.nodes[k] = n

\* the position of v among the successors of u
SuccIndex(g, u, v) == CHOOSE k \in DOMAIN g.succ[u] : g.succ[u][k] = v

\* C21: the Graphviz text holds one node statement per node of the graph,
\* labelled with the node's admin_level, name and id in this order, then
\* one edge statement per edge, all in node and edge iteration order, and
\* it is determined by the graph alone
C21_GvText ==
    GvWritten =>
        LET text == output.content
            n == Len(G.nodes)
        IN /\ output.kind = "file"
           /\ Len(text) = n + Cardinality(EdgeSet(G))
           /\ \A k \in 1..n :
                 LET data == G.data[G.nodes[k]]
                 IN /\ text[k].stmt = "node"
                    /\ text[k].id = G.nodes[k]
                    /\ text[k].label =
                          <<IF "admin_level" \in DOMAIN data
                            THEN data["admin_level"] ELSE Str("N/A"),
                            IF "name" \in DOMAIN data
                            THEN data["name"] ELSE Str("Unnamed"),
                            G.nodes[k]>>
           /\ \A k \in (n + 1)..Len(text) :
                 /\ text[k].stmt = "edge"
                 /\ <<text[k].from, text[k].to>> \in EdgeSet(G)
           /\ \A e \in EdgeSet(G) :
                 \E k \in (n + 1)..Len(text) : <<text[k].from, text[k].to>> = e
           /\ \A p, q \in (n + 1)..Len(text) :
                 p < q =>
                    \/ NodeIndex(G, text[p].from) < NodeIndex(G, text[q].from)
                    \/ /\ text[p].from = text[q].from
                       /\ SuccIndex(G, text[p].from, text[p].to)
                              < SuccIndex(G, text[q].from, text[q].to)
           /\ text = gv_text(G)

C21_Witness ==
    /\ GvWritten
    /\ Len(output.content) = SerNodes + 3
    /\ \E u \in NodeSet(G) :
          Len(G.succ[u]) >= 2 /\ G.succ[u][1] > G.succ[u][2]

-----------------------------------------------------------------------------
(* The recursion of graph_to_nested_json, frame by frame *)

RecursionLimit == 4    \* frames of recurse the interpreter allows
MaxEdges == 4          \* edges of a graph handed to the recursion

\* every graph of SerNodes nodes with at most MaxEdges edges, cycles and
\* self-loops included
InitRecurse ==
    /\ relation_dict = <<>>
    /\ args = NoArgs
    /\ \E E \in SUBSET ((1..SerNodes) \X (1..SerNodes)) :
          /\ Cardinality(E) <= MaxEdges
          /\ G = GraphOf(SerNodes, OwnLevelData(SerNodes), E)
    /\ root_id \in 1..(SerNodes + 1)
    /\ root_candidates = <<>>
    /\ min_level = Inf
    /\ pc = "call_recurse"
    /\ err = "" /\ err_at = ""
    /\ inputs_read = 0
    /\ last_input = <<>>
    /\ output = None
    /\ printed = {}
    /\ G_in = EmptyGraph
    /\ calls = 0
    /\ returned = None
    /\ frames = <<>>

\* graph_to_nested_json ends: it returns a value or raises
NestedEnds(result) ==
    /\ returned' = [call |-> "graph_to_nested_json", admin_level |-> None,
                    result |-> result]
    /\ frames' = <<>>
    /\ pc' = "called"

\* return recurse(root_id): the first frame; node_data = G.nodes[node]
\* raises KeyError when root_id is no node
RecurseEnter ==
    /\ pc = "call_recurse"
    /\ IF root_id \notin NodeSet(G)
       THEN NestedEnds([ok |-> FALSE, exc |-> "KeyError", val |-> None])
       ELSE /\ frames' = <<[node |-> root_id, children |-> <<>>]>>
            /\ pc' = "recursing"
            /\ UNCHANGED returned
    /\ UNCHANGED <<relation_dict, args, G, root_id, root_candidates, min_level,
                   err, err_at, inputs_read, last_input, output, printed, G_in,
                   calls>>

\* the innermost frame has a successor left to visit
MoreChildren ==
    /\ pc = "recursing"
    /\ Len(frames[Len(frames)].children) < Len(G.succ[frames[Len(frames)].node])

\* RecurseDescend leaving out a successor that already has a frame
RecurseDescend_guarded ==
    /\ MoreChildren
    /\ LET top == frames[Len(frames)]
           child == G.succ[top.node][Len(top.children) + 1]
       IN IF \E k \in DOMAIN frames : frames[k].node = child
          THEN frames' = [frames EXCEPT ![Len(frames)].children = Append(@, None)]
          ELSE frames' = Append(frames, [node |-> child, children |-> <<>>])
    /\ UNCHANGED <<relation_dict, args, G, root_id, root_candidates, min_level,
                   pc, err, err_at, inputs_read, last_input, output, printed,
                   G_in, calls, returned>>

\* recurse(child) for the next child of G.successors(node): a new frame
RecurseDescend ==
    /\ MoreChildren
    /\ Len(frames) < RecursionLimit
    /\ LET top == frames[Len(frames)]
           child == G.succ[top.node][Len(top.children) + 1]
       IN frames' = Append(frames, [node |-> child, children |-> <<>>])
    /\ UNCHANGED <<relation_dict, args, G, root_id, root_candidates, min_level,
                   pc, err, err_at, inputs_read, last_input, output, printed,
                   G_in, calls, returned>>

\* recurse(child) beyond the interpreter's limit: RecursionError unwinds
\* every frame
RecurseOverflow ==
    /\ MoreChildren
    /\ Len(frames) >= RecursionLimit
    /\ NestedEnds([ok |-> FALSE, exc |-> "RecursionError", val |-> None])
    /\ UNCHANGED <<relation_dict, args, G, root_id, root_candidates, min_level,
                   err, err_at, inputs_read, last_input, output, printed, G_in,
                   calls>>

\* return {"id": node, **node_data, "subareas": children}
RecurseReturn ==
    /\ pc = "recursing"
    /\ ~MoreChildren
    /\ LET top == frames[Len(frames)]
           rec == ("subareas" :> top.children) @@ G.data[top.node]
                      @@ ("id" :> top.node)
       IN IF Len(frames) = 1
          THEN NestedEnds([ok |-> TRUE, exc |-> "", val |-> rec])
          ELSE /\ frames' = [SubSeq(frames, 1, Len(frames) - 1)
                                EXCEPT ![Len(frames) - 1].children = Append(@, rec)]
               /\ UNCHANGED <<pc, returned>>
    /\ UNCHANGED <<relation_dict, args, G, root_id, root_candidates, min_level,
                   err, err_at, inputs_read, last_input, output, printed, G_in,
                   calls>>

NextRecurse == RecurseEnter \/ RecurseDescend \/ RecurseOverflow \/ RecurseReturn

\* the interpreter goes on executing the call
SpecRecurse == InitRecurse /\ [][NextRecurse]_vars /\ WF_vars(NextRecurse)

\* graph_to_nested_json has returned a value
NestedReturned == pc = "called" /\ returned.result.ok

\* C22: graph_to_nested_json(G, root_id) ends on every graph, with a value
\* when no cycle can be reached from root_id (a node with several parents
\* included); when a cycle can be reached no guard stops the recursion and
\* no value is ever returned
C22_NestedTermination ==
    /\ (root_id \in NodeSet(G) /\ ~CycleReachable(G, root_id)) ~> NestedReturned
    /\ [](root_id \in NodeSet(G) /\ CycleReachable(G, root_id) => ~NestedReturned)
    /\ [](pc = "called" => returned.result = graph_to_nested_json(G, root_id))

C22_Witness ==
    /\ NestedReturned
    /\ \E v \in NodeSet(G) :
          Cardinality({u \in NodeSet(G) : <<u, v>> \in EdgeSet(G)}) >= 2
    /\ Count(NestedIds(returned.result.val), SerNodes) = 2

-----------------------------------------------------------------------------
(* The tie loop of the root selector *)

\* the line is the id of one of the listed candidates
ListedChoice(line) ==
    int(Str(line)).ok /\ int(Str(line)).val \in Range(root_candidates)

\* C23: in the tie loop of find_root_node_id every invalid input (no number,
\* or a number that is no listed candidate) leads to another prompt with the
\* graph and the candidates unchanged, and the loop is left at the first
\* valid input and only then, by returning the entered candidate; no count
\* of inputs ends it
C23_TieLoop ==
    [][pc = "prompt_multiple_root_nodes" =>
          /\ inputs_read' = inputs_read + 1
          /\ G' = G /\ root_candidates' = root_candidates
          /\ ListedChoice(last_input') =>
                /\ pc' = "after_root"
                /\ root_id' = int(Str(last_input')).val
          /\ ~ListedChoice(last_input') =>
                /\ pc' = "prompt_multiple_root_nodes"
                /\ root_id' = root_id /\ err' = err
                /\ i18n_string(IF int(Str(last_input')).ok
                               THEN "error.find_root_node_id.error_invalid_node_id"
                               ELSE "error.find_root_node_id.error_invalid_number")
                      \in printed']_vars

C23_Witness ==
    /\ pc = "prompt_multiple_root_nodes"
    /\ inputs_read = MaxInputs
    /\ i18n_string("error.find_root_node_id.error_invalid_node_id") \in printed
    /\ i18n_string("error.find_root_node_id.error_invalid_number") \in printed
    /\ Len(root_candidates) >= 2

-----------------------------------------------------------------------------
(* The order of the stages of main *)

\* the stage of a position of the run: build, root selection, the two
\* prunings, serialization, the end
Stage(p) ==
    CASE p = "build" -> 0
      [] p \in {"find_root", "prompt_root_node_id", "prompt_manual_root_node_id",
                "prompt_multiple_root_nodes"} -> 1
      [] p = "after_root" -> 2
      [] p = "after_prune_to_root" -> 3
      [] p = "serialize" -> 4
      [] p \in {"done", "crashed"} -> 5

\* C24: a run of main goes through its stages in one order: it builds the
\* graph once, selects the root on the unpruned graph, prunes to the root if
\* and only if ensure_connected is set, prunes to the level if and only if
\* stop_level or only_level is given, and serializes at most once; each
\* pruning runs at most once and the graph no longer changes once
\* serialization has started
C24_StageOrder ==
    [][/\ relation_dict' = relation_dict /\ args' = args
       /\ Stage(pc') > Stage(pc) \/ (Stage(pc') = 1 /\ Stage(pc) = 1)
       /\ pc' \notin {"crashed", "done"} => Stage(pc') <= Stage(pc) + 1
       /\ pc = "build" => G' = build_graph(relation_dict) /\ pc' = "find_root"
       /\ Stage(pc) = 1 => G' = G
       /\ root_id' # root_id => Stage(pc) = 1 /\ pc' = "after_root"
       /\ pc = "after_root" =>
             IF args.ensure_connected
             THEN \/ pc' = "crashed" /\ G' = G
                  \/ /\ pc' = "after_prune_to_root"
                     /\ G' = prune_graph_to_root(G, root_id).G
                     /\ NodeSet(G') = ReachFrom(G, {root_id})
             ELSE pc' = "after_prune_to_root" /\ G' = G
       /\ pc = "after_prune_to_root" =>
             IF args.stop_level # None \/ args.only_level # None
             THEN \/ pc' = "crashed" /\ G' = G
                  \/ /\ pc' = "serialize"
                     /\ G' = prune_graph_to_level(G, args.stop_level,
                                                  args.only_level).G
             ELSE pc' = "serialize" /\ G' = G
       /\ pc = "serialize" => G' = G /\ pc' \in {"done", "crashed"}
       /\ output' # output => pc = "serialize"]_vars

C24_Witness ==
    /\ pc = "done" /\ output # None /\ err = ""
    /\ args.ensure_connected /\ args.stop_level # None
    /\ args.output_format = "gv"
    /\ Len(G.nodes) < Len(build_graph(relation_dict).nodes)
    /\ G_in # build_graph(relation_dict)

-----------------------------------------------------------------------------
(* The graph and the root that main hands to the serializer *)

\* main has reached serialization: the prunings are over
AtSerialization == pc = "serialize"

\* C25: when ensure_connected is set, every node of the graph handed to
\* the serializer is the root or can be reached from the root along edges
\* of that graph, whatever stop_level and only_level are
C25_ConnectedAtSerialization ==
    (AtSerialization /\ args.ensure_connected) =>
        \A n \in NodeSet(G) :
            root_id \in NodeSet(G) /\ n \in ReachFrom(G, {root_id})

\* C26: when main reaches nested serialization with a root that auto or
\* highest chose among the candidates of the graph, the root is a node of
\* the graph handed to the serializer, whatever ensure_connected,
\* stop_level and only_level are, and the serialization does not fail with
\* node-not-found
C26_ChosenRootKept ==
    (/\ args.root_select_strategy \in {"auto", "highest"}
     /\ root_id \in Range(root_candidates)
     /\ args.output_format = "json" /\ args.json_schema # "plain"
     /\ pc \in {"serialize", "done"}) =>
        /\ root_id \in NodeSet(G)
        /\ ~(err = "KeyError" /\ err_at = "graph_to_nested_json")

=============================================================================
